---- MODULE Spec2Model ----
(***************************************************************************)
(* MakeTStructureMesh (content/shells/tstructmesh.py): a structured        *)
(* T-shaped shell mesh built from two regular grids.  The procedure is     *)
(* modelled statement by statement: every mesh.Add / SetCD2Name / Compress *)
(* call is one step, the loop counters i, j and the position pc are state. *)
(* Python lists are 0-based; the sequences here are 1-based, so pids[p] of *)
(* the source is pids[p+1] here.  Coordinates are exact rationals          *)
(* <<numerator, denominator>>.                                             *)
(***************************************************************************)
EXTENDS Integers, Sequences, FiniteSets

(* Bounds of the explored parameter space. *)
MaxNx == 3
MaxNy1 == 4
MaxNy2 == 3
RatioDen == 2

VARIABLES quads, nx1, ny1, nx2, ny2, ratio,
          pc, i, j,
          points, pids, facedescriptors, els2d, els1d, cd2names,
          compressed, ngsmesh

params == <<quads, nx1, ny1, nx2, ny2, ratio>>
meshvars == <<points, facedescriptors, els2d, els1d, cd2names, compressed>>
vars == <<quads, nx1, ny1, nx2, ny2, ratio, pc, i, j, points, pids,
          facedescriptors, els2d, els1d, cd2names, compressed, ngsmesh>>

(* ---------------------------------------------------------------------- *)
(* Python helpers                                                          *)
(* ---------------------------------------------------------------------- *)

(* range(a, b) *)
Range(a, b) == a .. (b - 1)

(* int(ny1/2): true division followed by truncation, ny1 >= 1 *)
SeamRow == ny1 \div 2

(* base1 = (ny1+1) * (nx1+1) *)
base1 == (ny1 + 1) * (nx1 + 1)

(* equality of two rationals <<n, d>> with d > 0 *)
RatEq(a, b) == a[1] * b[2] = b[1] * a[2]

(* x,y,z = j/nx1, i/ny1, 0 *)
UpperPnt(r, c) == [x |-> <<c, nx1>>, y |-> <<r, ny1>>, z |-> <<0, 1>>]

(* x,y,z = j/nx2, ratio, -i/ny2 *)
LowerPnt(r, c) == [x |-> <<c, nx2>>, y |-> ratio, z |-> <<0 - r, ny2>>]

(* list indexing pids[p]: a negative p counts from the end, anything      *)
(* outside -len .. len-1 raises IndexError                                 *)
PyIndex(p) == IF p < 0 THEN p + Len(pids) ELSE p
InRange(p) == PyIndex(p) >= 0 /\ PyIndex(p) < Len(pids)
AllInRange(pnum) == \A k \in 1..Len(pnum) : InRange(pnum[k])
Lookup(pnum) == [k \in 1..Len(pnum) |-> pids[PyIndex(pnum[k]) + 1]]

(* ---------------------------------------------------------------------- *)
(* Index lists of the elements                                             *)
(* ---------------------------------------------------------------------- *)

(* pnum = [base,base+1,base+nx+2,base+nx+1] *)
QuadPnum(base, nx) == <<base, base + 1, base + nx + 2, base + nx + 1>>

(* pnum1 = [base,base+1,base+nx+1] *)
TriPnum1Mut(base, nx) == <<base, base + 1, base + nx + 2>>
TriPnum1(base, nx) == <<base, base + 1, base + nx + 1>>

(* pnum2 = [base+1,base+nx+2,base+nx+1] *)
TriPnum2(base, nx) == <<base + 1, base + nx + 2, base + nx + 1>>

(* connector strip, quads: pnum = [base,base+1,base1+j+1,base1+j] *)
ConnectorQuadPnum(base, c) == <<base, base + 1, base1 + c + 1, base1 + c>>

(* meshing.Element2D(1, elpids) *)
Element2D(index, elpids) == [index |-> index, vertices |-> elpids]

(* meshing.Element1D([a, b], index=t) *)
Element1D(elpids, index) == [vertices |-> elpids, index |-> index]

(* the Element2D records one cell adds: one quad, or a pair of triangles *)
CellElementsMut(q, pnum, pnum1, pnum2) ==
    IF q THEN <<Element2D(1, Lookup(pnum))>>
         ELSE <<Element2D(1, Lookup(pnum1))>>
CellElements(q, pnum, pnum1, pnum2) ==
    IF q THEN <<Element2D(1, Lookup(pnum))>>
         ELSE <<Element2D(1, Lookup(pnum1)), Element2D(1, Lookup(pnum2))>>

(* the indices one cell looks up *)
CellLookups(q, pnum, pnum1, pnum2) ==
    IF q THEN pnum ELSE pnum1 \o pnum2

(* ---------------------------------------------------------------------- *)
(* Control flow: the statements in source order and their loop ranges      *)
(* ---------------------------------------------------------------------- *)

PhaseOrderMut ==
    <<"upperPoints", "lowerPoints", "faceDescriptor", "upperCells",
      "connector", "upbottom", "lowerCells", "upright", "uptop", "upleft",
      "interface", "downrightJoin", "downright", "downbottom", "downleft",
      "downleftJoin", "names", "compress", "ngsmesh", "done">>
PhaseOrder ==
    <<"upperPoints", "lowerPoints", "faceDescriptor", "upperCells",
      "connector", "lowerCells", "upbottom", "upright", "uptop", "upleft",
      "interface", "downrightJoin", "downright", "downbottom", "downleft",
      "downleftJoin", "names", "compress", "ngsmesh", "done">>

(* for i in range(1,ny2+1) *)
LowerPointRowsMut == Range(0, ny2 + 1)
LowerPointRows == Range(1, ny2 + 1)

(* for i in range(ny2-1), tag 6 *)
DownRightRowsMut == Range(0, ny2 - 2)
DownRightRows == Range(0, ny2 - 1)

(* values of the outer loop variable of a phase (a single value for a     *)
(* straight-line statement)                                                *)
Rows(p) ==
    CASE p = "upperPoints" -> Range(0, ny1 + 1)
      [] p = "lowerPoints" -> LowerPointRows
      [] p = "upperCells"  -> Range(0, ny1)
      [] p = "lowerCells"  -> Range(1, ny2)
      [] p = "upbottom"    -> Range(0, nx1)
      [] p = "upright"     -> Range(0, ny1)
      [] p = "uptop"       -> Range(0, nx1)
      [] p = "upleft"      -> Range(0, ny1)
      [] p = "interface"   -> Range(0, nx2)
      [] p = "downright"   -> DownRightRows
      [] p = "downbottom"  -> Range(0, nx2)
      [] p = "downleft"    -> Range(0, ny2 - 1)
      [] p = "names"       -> 1 .. 8
      [] OTHER             -> {0}

(* values of the inner loop variable j *)
Cols(p) ==
    CASE p = "upperPoints" -> Range(0, nx1 + 1)
      [] p = "lowerPoints" -> Range(0, nx2 + 1)
      [] p = "upperCells"  -> Range(0, nx1)
      [] p = "connector"   -> Range(0, nx1)
      [] p = "lowerCells"  -> Range(0, nx2)
      [] OTHER             -> {0}

SetMin(S) == CHOOSE m \in S : \A n \in S : m <= n

PhaseIndex(p) == CHOOSE k \in 1..Len(PhaseOrder) : PhaseOrder[k] = p

(* the first statement at or after position k whose loops are not empty *)
RECURSIVE FirstRunnable(_)
FirstRunnable(k) ==
    IF k >= Len(PhaseOrder) THEN "done"
    ELSE IF Rows(PhaseOrder[k]) # {} /\ Cols(PhaseOrder[k]) # {}
         THEN PhaseOrder[k]
         ELSE FirstRunnable(k + 1)

(* control after the current iteration: next j, else next i, else the     *)
(* next statement                                                          *)
Advance ==
    IF (j + 1) \in Cols(pc)
    THEN /\ pc' = pc
         /\ i' = i
         /\ j' = j + 1
    ELSE IF (i + 1) \in Rows(pc)
    THEN /\ pc' = pc
         /\ i' = i + 1
         /\ j' = SetMin(Cols(pc))
    ELSE LET q == FirstRunnable(PhaseIndex(pc) + 1)
         IN  /\ pc' = q
             /\ i' = SetMin(Rows(q))
             /\ j' = SetMin(Cols(q))

(* an IndexError leaves the function: nothing is returned *)
Abort ==
    /\ pc' = "aborted"
    /\ UNCHANGED <<i, j>>

(* ---------------------------------------------------------------------- *)
(* Initial state: mesh = meshing.Mesh(); pids = []                         *)
(* ---------------------------------------------------------------------- *)

Init ==
    /\ quads \in BOOLEAN
    /\ nx1 \in 1..MaxNx
    /\ ny1 \in 1..MaxNy1
    /\ nx2 \in 1..MaxNx
    /\ ny2 \in 1..MaxNy2
    /\ ratio \in {<<k, RatioDen>> : k \in 0..RatioDen}
    /\ pc = "upperPoints"
    /\ i = 0
    /\ j = 0
    /\ points = <<>>
    /\ pids = <<>>
    /\ facedescriptors = <<>>
    /\ els2d = <<>>
    /\ els1d = <<>>
    /\ cd2names = <<>>
    /\ compressed = FALSE
    /\ ngsmesh = FALSE

(* ---------------------------------------------------------------------- *)
(* Steps                                                                   *)
(* ---------------------------------------------------------------------- *)

(* mesh.Add(MeshPoint) appends the point and returns its handle, the      *)
(* 1-based number of the point in the mesh                                 *)
MeshAddPoint(p) ==
    /\ points' = Append(points, p)
    /\ pids' = Append(pids, Len(points) + 1)

AddUpperPoint ==
    /\ pc = "upperPoints"
    /\ MeshAddPoint(UpperPnt(i, j))
    /\ Advance
    /\ UNCHANGED <<params, facedescriptors, els2d, els1d, cd2names,
                   compressed, ngsmesh>>

AddLowerPoint ==
    /\ pc = "lowerPoints"
    /\ MeshAddPoint(LowerPnt(i, j))
    /\ Advance
    /\ UNCHANGED <<params, facedescriptors, els2d, els1d, cd2names,
                   compressed, ngsmesh>>

(* mesh.Add(meshing.FaceDescriptor(surfnr=1,domin=1,bc=1)) *)
AddFaceDescriptor ==
    /\ pc = "faceDescriptor"
    /\ facedescriptors' = Append(facedescriptors,
                                 [surfnr |-> 1, domin |-> 1, bc |-> 1])
    /\ Advance
    /\ UNCHANGED <<params, points, pids, els2d, els1d, cd2names,
                   compressed, ngsmesh>>

(* one cell: look the indices up, then add the element(s) *)
AddCell(pnum, pnum1, pnum2) ==
    IF AllInRange(CellLookups(quads, pnum, pnum1, pnum2))
    THEN /\ els2d' = els2d \o CellElements(quads, pnum, pnum1, pnum2)
         /\ Advance
    ELSE /\ Abort
         /\ UNCHANGED els2d

UpperCellBase == i * (nx1 + 1) + j

AddUpperCell ==
    /\ pc = "upperCells"
    /\ AddCell(QuadPnum(UpperCellBase, nx1), TriPnum1(UpperCellBase, nx1),
               TriPnum2(UpperCellBase, nx1))
    /\ UNCHANGED <<params, points, pids, facedescriptors, els1d, cd2names,
                   compressed, ngsmesh>>

ConnectorBase == SeamRow * (nx1 + 1) + j

AddConnectorCell ==
    /\ pc = "connector"
    /\ AddCell(ConnectorQuadPnum(ConnectorBase, j),
               TriPnum1(ConnectorBase, nx1), TriPnum2(ConnectorBase, nx1))
    /\ UNCHANGED <<params, points, pids, facedescriptors, els1d, cd2names,
                   compressed, ngsmesh>>

LowerCellBase == base1 + (i - 1) * (nx2 + 1) + j

AddLowerCell ==
    /\ pc = "lowerCells"
    /\ AddCell(QuadPnum(LowerCellBase, nx2), TriPnum1(LowerCellBase, nx2),
               TriPnum2(LowerCellBase, nx2))
    /\ UNCHANGED <<params, points, pids, facedescriptors, els1d, cd2names,
                   compressed, ngsmesh>>

(* one boundary segment: look both indices up, then add the Element1D *)
AddSegment(pnum, index) ==
    IF AllInRange(pnum)
    THEN /\ els1d' = Append(els1d, Element1D(Lookup(pnum), index))
         /\ Advance
    ELSE /\ Abort
         /\ UNCHANGED els1d

(* [pids[i], pids[i+1]], index=1 *)
UpBottomPnum == <<i, i + 1>>

(* [pids[i*(nx1+1)+nx1], pids[(i+1)*(nx1+1)+nx1]], index=2 *)
UpRightPnum == <<i * (nx1 + 1) + nx1, (i + 1) * (nx1 + 1) + nx1>>

(* [pids[ny1*(nx1+1)+i+1], pids[ny1*(nx1+1)+i]], index=3 *)
UpTopPnum == <<ny1 * (nx1 + 1) + i + 1, ny1 * (nx1 + 1) + i>>

(* [pids[(i+1)*(nx1+1)], pids[i*(nx1+1)]], index=4 *)
UpLeftPnum == <<(i + 1) * (nx1 + 1), i * (nx1 + 1)>>

(* [pids[int(ny1/2)*(nx1+1)+i], pids[int(ny1/2)*(nx1+1)+i+1]], index=5 *)
InterfacePnum == <<SeamRow * (nx1 + 1) + i, SeamRow * (nx1 + 1) + i + 1>>

(* [pids[int(ny1/2)*(nx1+1)], pids[base1]], index=6 *)
DownRightJoinPnum == <<SeamRow * (nx1 + 1), base1>>

(* [pids[i*(nx2+1)+base1], pids[(i+1)*(nx2+1)+base1]], index=6 *)
DownRightPnum == <<i * (nx2 + 1) + base1, (i + 1) * (nx2 + 1) + base1>>

(* [pids[(ny2-1)*(nx2+1)+i+base1], pids[(ny2-1)*(nx2+1)+i+1+base1]], 7 *)
DownBottomPnum ==
    <<(ny2 - 1) * (nx2 + 1) + i + base1, (ny2 - 1) * (nx2 + 1) + i + 1 + base1>>

(* [pids[(i+1)*(nx2+1)+nx2+base1], pids[i*(nx2+1)+nx2+base1]], index=8 *)
DownLeftPnum ==
    <<(i + 1) * (nx2 + 1) + nx2 + base1, i * (nx2 + 1) + nx2 + base1>>

(* [pids[base1+nx1], pids[int(ny1/2)*(nx1+1)+nx1]], index=8 *)
DownLeftJoinPnum == <<base1 + nx1, SeamRow * (nx1 + 1) + nx1>>

AddUpBottom ==
    /\ pc = "upbottom"
    /\ AddSegment(UpBottomPnum, 1)
    /\ UNCHANGED <<params, points, pids, facedescriptors, els2d, cd2names,
                   compressed, ngsmesh>>

AddUpRight ==
    /\ pc = "upright"
    /\ AddSegment(UpRightPnum, 2)
    /\ UNCHANGED <<params, points, pids, facedescriptors, els2d, cd2names,
                   compressed, ngsmesh>>

AddUpTop ==
    /\ pc = "uptop"
    /\ AddSegment(UpTopPnum, 3)
    /\ UNCHANGED <<params, points, pids, facedescriptors, els2d, cd2names,
                   compressed, ngsmesh>>

AddUpLeft ==
    /\ pc = "upleft"
    /\ AddSegment(UpLeftPnum, 4)
    /\ UNCHANGED <<params, points, pids, facedescriptors, els2d, cd2names,
                   compressed, ngsmesh>>

AddInterface ==
    /\ pc = "interface"
    /\ AddSegment(InterfacePnum, 5)
    /\ UNCHANGED <<params, points, pids, facedescriptors, els2d, cd2names,
                   compressed, ngsmesh>>

AddDownRightJoin ==
    /\ pc = "downrightJoin"
    /\ AddSegment(DownRightJoinPnum, 6)
    /\ UNCHANGED <<params, points, pids, facedescriptors, els2d, cd2names,
                   compressed, ngsmesh>>

AddDownRight ==
    /\ pc = "downright"
    /\ AddSegment(DownRightPnum, 6)
    /\ UNCHANGED <<params, points, pids, facedescriptors, els2d, cd2names,
                   compressed, ngsmesh>>

AddDownBottom ==
    /\ pc = "downbottom"
    /\ AddSegment(DownBottomPnum, 7)
    /\ UNCHANGED <<params, points, pids, facedescriptors, els2d, cd2names,
                   compressed, ngsmesh>>

AddDownLeft ==
    /\ pc = "downleft"
    /\ AddSegment(DownLeftPnum, 8)
    /\ UNCHANGED <<params, points, pids, facedescriptors, els2d, cd2names,
                   compressed, ngsmesh>>

AddDownLeftJoin ==
    /\ pc = "downleftJoin"
    /\ AddSegment(DownLeftJoinPnum, 8)
    /\ UNCHANGED <<params, points, pids, facedescriptors, els2d, cd2names,
                   compressed, ngsmesh>>

(* the eight mesh.SetCD2Name(nr, name) calls, in source order *)
CD2NameCalls ==
    <<[nr |-> 1, name |-> "upbottom"], [nr |-> 2, name |-> "upright"],
      [nr |-> 3, name |-> "uptop"], [nr |-> 4, name |-> "upleft"],
      [nr |-> 5, name |-> "interface"], [nr |-> 6, name |-> "downright"],
      [nr |-> 7, name |-> "downbottom"], [nr |-> 8, name |-> "downleft"]>>

SetCD2Name ==
    /\ pc = "names"
    /\ cd2names' = Append(cd2names, CD2NameCalls[i])
    /\ Advance
    /\ UNCHANGED <<params, points, pids, facedescriptors, els2d, els1d,
                   compressed, ngsmesh>>

(* handles referenced by some element *)
UsedHandles ==
    UNION {{els2d[k].vertices[n] : n \in DOMAIN els2d[k].vertices} :
               k \in 1..Len(els2d)}
        \cup UNION {{els1d[k].vertices[n] : n \in DOMAIN els1d[k].vertices} :
                      k \in 1..Len(els1d)}


(* the number a used point carries after the unused ones are dropped *)
Renumber(h) == Cardinality({u \in UsedHandles : u <= h})

RenumberAll(els) ==
    [k \in DOMAIN els |->
        [els[k] EXCEPT !.vertices = [n \in DOMAIN @ |-> Renumber(@[n])]]]

(* mesh.Compress(): points no element refers to are removed and the       *)
(* remaining ones renumbered in order; the local list pids is not touched  *)
Compress ==
    /\ pc = "compress"
    /\ points' = [k \in 1..Cardinality(UsedHandles) |->
                     points[CHOOSE h \in UsedHandles : Renumber(h) = k]]
    /\ els2d' = RenumberAll(els2d)
    /\ els1d' = RenumberAll(els1d)
    /\ compressed' = TRUE
    /\ Advance
    /\ UNCHANGED <<params, pids, facedescriptors, cd2names, ngsmesh>>

(* ngsmesh = ng.Mesh(mesh); return ngsmesh *)
NgMesh ==
    /\ pc = "ngsmesh"
    /\ ngsmesh' = TRUE
    /\ Advance
    /\ UNCHANGED <<params, points, pids, facedescriptors, els2d, els1d,
                   cd2names, compressed>>

Next ==
    \/ AddUpperPoint
    \/ AddLowerPoint
    \/ AddFaceDescriptor
    \/ AddUpperCell
    \/ AddConnectorCell
    \/ AddLowerCell
    \/ AddUpBottom
    \/ AddUpRight
    \/ AddUpTop
    \/ AddUpLeft
    \/ AddInterface
    \/ AddDownRightJoin
    \/ AddDownRight
    \/ AddDownBottom
    \/ AddDownLeft
    \/ AddDownLeftJoin
    \/ SetCD2Name
    \/ Compress
    \/ NgMesh

Spec == Init /\ [][Next]_vars

(* ---------------------------------------------------------------------- *)
(* Well-formedness of the model state                                      *)
(* ---------------------------------------------------------------------- *)

TypeOK ==
    /\ quads \in BOOLEAN
    /\ nx1 \in 1..MaxNx /\ nx2 \in 1..MaxNx
    /\ ny1 \in 1..MaxNy1 /\ ny2 \in 1..MaxNy2
    /\ pc \in {PhaseOrder[k] : k \in 1..Len(PhaseOrder)} \cup {"aborted"}
    /\ Len(pids) <= base1 + ny2 * (nx2 + 1)
    /\ ngsmesh \in BOOLEAN /\ compressed \in BOOLEAN


(* ---------------------------------------------------------------------- *)
(* Vocabulary of the properties                                            *)
(* ---------------------------------------------------------------------- *)

(* number of points of both grids *)
TotalPoints == (ny1 + 1) * (nx1 + 1) + ny2 * (nx2 + 1)

(* the handle recorded at 0-based sequence index p *)
HandleAt(p) == pids[p + 1]

Ny1Even == ny1 % 2 = 0

(* the function has left its body, by return or by exception *)
Finished == pc \in {"done", "aborted"}

(* all boundary segments have been emitted *)
SegmentsEmitted == pc \in {"names", "compress", "ngsmesh", "done"}

VertexSet(el) == {el.vertices[n] : n \in DOMAIN el.vertices}

(* positions in els1d of the segments carrying tag t *)
TagSegments(t) == {k \in 1..Len(els1d) : els1d[k].index = t}

TagEdges(t) == {VertexSet(els1d[k]) : k \in TagSegments(t)}

TagVertices(t) == UNION TagEdges(t)

RECURSIVE Connected(_, _)
Connected(S, E) ==
    LET N == S \cup UNION {e \in E : e \cap S # {}}
    IN  IF N = S THEN S ELSE Connected(N, E)

(* the segments of tag t are the edges of one simple path: no segment     *)
(* twice, no point met by more than two segments, no cycle, one piece     *)
IsSimplePath(t) ==
    LET E == TagEdges(t)
        V == TagVertices(t)
    IN  /\ E # {}
        /\ Cardinality(E) = Cardinality(TagSegments(t))
        /\ \A e \in E : Cardinality(e) = 2
        /\ \A v \in V : Cardinality({e \in E : v \in e}) <= 2
        /\ Cardinality(E) = Cardinality(V) - 1
        /\ Connected({CHOOSE v \in V : TRUE}, E) = V

(* the indices the statement at pc is about to look up in pids *)
PendingLookups ==
    CASE pc = "upperCells" ->
           CellLookups(quads, QuadPnum(UpperCellBase, nx1),
                       TriPnum1(UpperCellBase, nx1), TriPnum2(UpperCellBase, nx1))
      [] pc = "connector" ->
           CellLookups(quads, ConnectorQuadPnum(ConnectorBase, j),
                       TriPnum1(ConnectorBase, nx1), TriPnum2(ConnectorBase, nx1))
      [] pc = "lowerCells" ->
           CellLookups(quads, QuadPnum(LowerCellBase, nx2),
                       TriPnum1(LowerCellBase, nx2), TriPnum2(LowerCellBase, nx2))
      [] pc = "upbottom"      -> UpBottomPnum
      [] pc = "upright"       -> UpRightPnum
      [] pc = "uptop"         -> UpTopPnum
      [] pc = "upleft"        -> UpLeftPnum
      [] pc = "interface"     -> InterfacePnum
      [] pc = "downrightJoin" -> DownRightJoinPnum
      [] pc = "downright"     -> DownRightPnum
      [] pc = "downbottom"    -> DownBottomPnum
      [] pc = "downleft"      -> DownLeftPnum
      [] pc = "downleftJoin"  -> DownLeftJoinPnum
      [] OTHER                -> <<>>

(* ---------------------------------------------------------------------- *)
(* C1                                                                      *)
(* ---------------------------------------------------------------------- *)

(* C1: with ny1 even, a completed call has emitted exactly                 *)
(* nx1*ny1 + nx1 + nx2*(ny2-1) face elements, all quads, when quads=True,  *)
(* and exactly twice that number, all triangles, when quads=False.         *)
C1_FaceCount ==
    (pc = "done" /\ Ny1Even) =>
        /\ Len(els2d) = (IF quads THEN 1 ELSE 2)
                            * (nx1 * ny1 + nx1 + nx2 * (ny2 - 1))
        /\ \A k \in 1..Len(els2d) :
              Len(els2d[k].vertices) = IF quads THEN 4 ELSE 3

C1_Witness ==
    /\ pc = "done" /\ Ny1Even /\ ~quads
    /\ nx1 # nx2 /\ ny2 >= 2
    /\ Len(els2d) = 2 * (nx1 * ny1 + nx1 + nx2 * (ny2 - 1))

(* ---------------------------------------------------------------------- *)
(* C2                                                                      *)
(* ---------------------------------------------------------------------- *)

(* C2 as stated: with ny1 even, the call emits 2*nx1 + 2*ny1 + nx2 + ny2   *)
(* + nx2 boundary segments in total.                                       *)
C2_Original ==
    (pc = "done" /\ Ny1Even) =>
        Len(els1d) = 2 * nx1 + 2 * ny1 + nx2 + ny2 + nx2

(* C2 amended: with ny1 even, a completed call has emitted exactly         *)
(* 2*nx1 + 2*ny1 + 2*nx2 + 2*ny2 boundary segments, nx1, ny1, nx1, ny1,    *)
(* nx2, ny2, nx2, ny2 of them under the tags 1..8, and no call ever emits  *)
(* more than that.                                                         *)
C2_SegmentCount ==
    Ny1Even =>
        /\ Len(els1d) <= 2 * nx1 + 2 * ny1 + 2 * nx2 + 2 * ny2
        /\ pc = "done" =>
              /\ Len(els1d) = 2 * nx1 + 2 * ny1 + 2 * nx2 + 2 * ny2
              /\ <<nx1, ny1, nx1, ny1, nx2, ny2, nx2, ny2>>
                    = [t \in 1..8 |-> Cardinality(TagSegments(t))]

C2_Witness ==
    /\ pc = "done" /\ Ny1Even /\ ny2 >= 2
    /\ Len(els1d) = 2 * nx1 + 2 * ny1 + 2 * nx2 + 2 * ny2
    /\ Len(els1d) # 2 * nx1 + 2 * ny1 + nx2 + ny2 + nx2

(* ---------------------------------------------------------------------- *)
(* C3                                                                      *)
(* ---------------------------------------------------------------------- *)

(* C3: with ny1 even, once the boundary segments are emitted, the segments *)
(* of each tag 1..8 form one connected path that visits no point twice.    *)
C3_Claim ==
    (SegmentsEmitted /\ Ny1Even) => \A t \in 1..8 : IsSimplePath(t)

(* ---------------------------------------------------------------------- *)
(* C4                                                                      *)
(* ---------------------------------------------------------------------- *)

(* C4: once the two point loops are over, exactly (ny1+1)*(nx1+1) +        *)
(* ny2*(nx2+1) points are registered; the handle at sequence index         *)
(* i*(nx1+1)+j is the upper-grid point of row i, column j, and the handle  *)
(* at index (ny1+1)*(nx1+1) + (i-1)*(nx2+1) + j is the lower-grid point of *)
(* row i (1..ny2), column j.                                               *)
C4_Points ==
    (pc \notin {"upperPoints", "lowerPoints"}) =>
        /\ Len(points) = (ny1 + 1) * (nx1 + 1) + ny2 * (nx2 + 1)
        /\ Len(pids) = (ny1 + 1) * (nx1 + 1) + ny2 * (nx2 + 1)
        /\ \A r \in 0..ny1 : \A c \in 0..nx1 :
              points[pids[r * (nx1 + 1) + c + 1]]
                  = [x |-> <<c, nx1>>, y |-> <<r, ny1>>, z |-> <<0, 1>>]
        /\ \A r \in 1..ny2 : \A c \in 0..nx2 :
              points[pids[(ny1 + 1) * (nx1 + 1) + (r - 1) * (nx2 + 1) + c + 1]]
                  = [x |-> <<c, nx2>>, y |-> ratio, z |-> <<0 - r, ny2>>]

C4_Witness ==
    /\ pc = "faceDescriptor"
    /\ nx1 # nx2 /\ ny1 % 2 = 1 /\ ny2 >= 2
    /\ Len(pids) = (ny1 + 1) * (nx1 + 1) + ny2 * (nx2 + 1)

(* ---------------------------------------------------------------------- *)
(* C5                                                                      *)
(* ---------------------------------------------------------------------- *)

(* C5: with ny1 even, when the call is over every boundary segment carries *)
(* a tag in 1..8, each tag 1..8 has at least one segment, and the tags     *)
(* 1..8 were named once each, in the order upbottom, upright, uptop,       *)
(* upleft, interface, downright, downbottom, downleft.                     *)
C5_Claim ==
    (Finished /\ Ny1Even) =>
        /\ \A k \in 1..Len(els1d) : els1d[k].index \in 1..8
        /\ \A t \in 1..8 : TagSegments(t) # {}
        /\ [k \in 1..Len(cd2names) |-> cd2names[k].nr]
              = <<1, 2, 3, 4, 5, 6, 7, 8>>
        /\ [k \in 1..Len(cd2names) |-> cd2names[k].name]
              = <<"upbottom", "upright", "uptop", "upleft", "interface",
                  "downright", "downbottom", "downleft">>

(* ---------------------------------------------------------------------- *)
(* C10                                                                     *)
(* ---------------------------------------------------------------------- *)

(* C10: with ny1 even, every index about to be looked up in pids lies in   *)
(* 0 .. (ny1+1)*(nx1+1) + ny2*(nx2+1) - 1, and the call never aborts.      *)
C10_Claim ==
    Ny1Even =>
        /\ \A k \in 1..Len(PendingLookups) :
              PendingLookups[k] \in 0 .. (TotalPoints - 1)
        /\ pc # "aborted"


(* ---------------------------------------------------------------------- *)
(* C6                                                                      *)
(* ---------------------------------------------------------------------- *)

(* first index of the seam row of the upper grid *)
SeamStart == (ny1 \div 2) * (nx1 + 1)

(* face elements each cell adds *)
PerCell == IF quads THEN 1 ELSE 2

(* the elements of the n-th cell (0-based, in emission order) *)
CellAt(n) == {els2d[k] : k \in (PerCell * n + 1) .. (PerCell * n + PerCell)}

CellEmitted(n) == Len(els2d) >= PerCell * n + PerCell

(* C6: in both modes, the c-th cell of the connector strip is built from   *)
(* the seam-row points c, c+1 of the upper grid and the points c, c+1 of   *)
(* the lower grid's first row: one quad over the four, or two triangles    *)
(* that together use exactly those four.                                   *)
C6_Claim ==
    Ny1Even =>
        \A c \in 0 .. (nx1 - 1) :
            CellEmitted(nx1 * ny1 + c) =>
                /\ UNION {VertexSet(el) : el \in CellAt(nx1 * ny1 + c)}
                      = {c + SeamStart + 1, c + SeamStart + 2,
                         (ny1 + 1) * (nx1 + 1) + c + 1,
                         (ny1 + 1) * (nx1 + 1) + c + 2}
                /\ \A el \in CellAt(nx1 * ny1 + c) :
                      Len(el.vertices) = IF quads THEN 4 ELSE 3

(* ---------------------------------------------------------------------- *)
(* C7                                                                      *)
(* ---------------------------------------------------------------------- *)

(* the triangle pair of the upper-grid cell in row r, column c *)
UpperTri1(r, c) == els2d[2 * (r * nx1 + c) + 1]
UpperTri2(r, c) == els2d[2 * (r * nx1 + c) + 2]

(* the handles of the cell's corner list [base, base+1, base+nx1+2,        *)
(* base+nx1+1], base = r*(nx1+1)+c                                         *)
Corner(r, c, n) ==
    HandleAt(<<r * (nx1 + 1) + c, r * (nx1 + 1) + c + 1,
               r * (nx1 + 1) + c + nx1 + 2, r * (nx1 + 1) + c + nx1 + 1>>[n])

UpperPairEmitted(r, c) == ~quads /\ Len(els2d) >= 2 * (r * nx1 + c) + 2

(* C7 as stated: with quads=False the two triangles of an upper-grid cell  *)
(* share the diagonal from the first corner to the third, and together use *)
(* exactly the four corners.                                               *)
C7_Original ==
    \A r \in 0 .. (ny1 - 1) : \A c \in 0 .. (nx1 - 1) :
        UpperPairEmitted(r, c) =>
            /\ VertexSet(UpperTri1(r, c)) \cap VertexSet(UpperTri2(r, c))
                  = {Corner(r, c, 1), Corner(r, c, 3)}
            /\ VertexSet(UpperTri1(r, c)) \cup VertexSet(UpperTri2(r, c))
                  = {Corner(r, c, n) : n \in 1..4}

(* C7 amended: with quads=False the two triangles of an upper-grid cell    *)
(* share the diagonal from the second corner (base+1) to the fourth        *)
(* (base+nx1+1), and together use exactly the four corners.                *)
C7_Diagonal ==
    \A r \in 0 .. (ny1 - 1) : \A c \in 0 .. (nx1 - 1) :
        UpperPairEmitted(r, c) =>
            /\ Len(UpperTri1(r, c).vertices) = 3
            /\ Len(UpperTri2(r, c).vertices) = 3
            /\ VertexSet(UpperTri1(r, c)) \cap VertexSet(UpperTri2(r, c))
                  = {Corner(r, c, 2), Corner(r, c, 4)}
            /\ VertexSet(UpperTri1(r, c)) \cup VertexSet(UpperTri2(r, c))
                  = {Corner(r, c, n) : n \in 1..4}

C7_Witness ==
    /\ ~quads /\ pc = "connector" /\ nx1 >= 2 /\ ny1 >= 2
    /\ Len(els2d) = 2 * nx1 * ny1
    /\ UpperPairEmitted(ny1 - 1, nx1 - 1)

(* ---------------------------------------------------------------------- *)
(* C8                                                                      *)
(* ---------------------------------------------------------------------- *)

(* C8: for every ratio in [0,1] the attachment row lies at y = ratio: the  *)
(* seam-row points of the upper grid used by the connector strip, the      *)
(* points of the interface-tagged segments and all lower-grid points have  *)
(* y-coordinate ratio.                                                     *)
C8_Claim ==
    (pc = "done" /\ Ny1Even) =>
        /\ \A c \in 0 .. nx1 :
              RatEq(points[HandleAt(SeamStart + c)].y, ratio)
        /\ \A k \in TagSegments(5) : \A v \in VertexSet(els1d[k]) :
              RatEq(points[v].y, ratio)
        /\ \A r \in 1..ny2 : \A c \in 0..nx2 :
              RatEq(points[HandleAt((ny1 + 1) * (nx1 + 1)
                                       + (r - 1) * (nx2 + 1) + c)].y, ratio)

(* ---------------------------------------------------------------------- *)
(* C9                                                                      *)
(* ---------------------------------------------------------------------- *)

(* every element refers only to handles of registered points *)
RefsRegistered ==
    /\ \A k \in 1..Len(els2d) : VertexSet(els2d[k]) \subseteq 1..Len(points)
    /\ \A k \in 1..Len(els1d) : VertexSet(els1d[k]) \subseteq 1..Len(points)

C9_Step ==
    /\ Len(points') > Len(points) =>
          /\ facedescriptors = <<>> /\ els2d = <<>> /\ els1d = <<>>
          /\ cd2names = <<>> /\ ~compressed
          /\ pids' = Append(pids, Len(points'))
    /\ facedescriptors' # facedescriptors =>
          /\ Len(points) = TotalPoints /\ Len(pids) = TotalPoints
          /\ els2d = <<>> /\ els1d = <<>> /\ cd2names = <<>> /\ ~compressed
    /\ Len(els2d') > Len(els2d) =>
          /\ Len(points) = TotalPoints /\ Len(facedescriptors) = 1
          /\ els1d = <<>> /\ cd2names = <<>> /\ ~compressed
    /\ Len(els1d') > Len(els1d) =>
          /\ Len(points) = TotalPoints /\ Len(facedescriptors) = 1
          /\ cd2names = <<>> /\ ~compressed
    /\ cd2names' # cd2names =>
          /\ ~compressed /\ els2d' = els2d /\ els1d' = els1d
    /\ compressed' # compressed =>
          /\ ~compressed /\ Len(cd2names) = 8
          /\ Len(els2d') = Len(els2d) /\ Len(els1d') = Len(els1d)
    /\ compressed => UNCHANGED meshvars
    /\ RefsRegistered'

(* C9: in every run, every point is registered (its handle recorded at its *)
(* sequence index) before the face descriptor, the face descriptor before  *)
(* any face element, every face element before any boundary segment, the   *)
(* names and Compress after all elements; no element is ever added that    *)
(* refers to a handle not yet registered.                                  *)
C9_EmissionOrder == [][C9_Step]_vars

C9_Witness ==
    /\ pc = "done" /\ ngsmesh /\ compressed
    /\ Len(cd2names) = 8
    /\ Len(els1d) > 0 /\ Len(els2d) > 0 /\ Len(facedescriptors) = 1
    /\ ny2 >= 2

====
